---- MODULE Spec2Model ----
(***************************************************************************)
(* Model of scripts/generate_inbox.py: main(cfg) as a sequential state     *)
(* machine.  Two independent runs of main with the same configuration and  *)
(* the same seed are executed side by side.  random.seed(cfg.seed) makes   *)
(* the stream of the random module a function of the seed, so both runs    *)
(* read the same stream: every action draws the stream's next values once  *)
(* and hands them to both runs.  uuid4() does not read that stream (it     *)
(* reads the operating system's entropy), so each run has an entropy of    *)
(* its own, and uuid4 returns an identifier that is fresh within the run.  *)
(* Identifiers are only ever compared for equality, so the entropy of the  *)
(* first run is called 1 and the second run's is the same or another.      *)
(*                                                                         *)
(* Encodings.  Amounts are integers in cents, risk scores in hundredths,   *)
(* interest rates in 1/10000, probabilities in percent.  A formatted date  *)
(* is <<"date", day>> with day counted from cfg.start_date, a formatted    *)
(* timestamp is <<"ts", day, minute of the day>>, an identifier is         *)
(* <<"uuid", entropy, n>>; the literal strings of the malformed rows carry *)
(* their own tag.  Rows are tuples in the column order of the headers      *)
(* (1-based here, 0-based in the source).                                  *)
(***************************************************************************)
EXTENDS Integers, Sequences, FiniteSets, TLC

VARIABLES cfg, run

vars == <<cfg, run>>

(* ------------------------------ bounds -------------------------------- *)
NumEntropy == 2
MaxDays == 5
MaxPeriod == 3
CarryDays == 2
MaxMerchants == 2
MaxApps == 2
MaxPays == 2

\* the two independent runs of main
Runs == {1, 2}
Entropies == 1..NumEntropy

(* --------------------------- program constants ------------------------ *)
MUTATION_RATE == 8
RESURFACE_RATE == 25
DEFAULT_PROXY_RATE == 3
MUTATE_RISK_RATE == 50
PAY_INTERVAL_DAYS == 7

MERCH_HEADERS == <<"merchant_id", "business_name", "industry_code", "state_code", "annual_revenue", "employees_count", "risk_score", "onboarding_date">>
APP_HEADERS == <<"application_id", "merchant_id", "application_date", "requested_amount", "loan_purpose", "application_status", "credit_score", "processing_time">>
DISB_HEADERS == <<"disbursement_id", "application_id", "merchant_id", "disbursed_amount", "disbursement_date", "interest_rate", "term_months", "repayment_schedule">>
PAY_HEADERS == <<"payment_id", "disbursement_id", "merchant_id", "payment_date", "payment_amount", "payment_method", "is_scheduled", "days_from_due", "processing_timestamp">>

(* ------------------- values the random stream can yield --------------- *)
\* random.random(), in percent (floor): one low and one high value
UnitDraws == {0, 99}
\* the draw of the default-proxy test of a payment (line 271)
DueUnitDraws == {50}
IndustryDraws == {"42310"}
StateDraws == {"CA"}
RevenueDraws == {5000000}
EmployeesDraws == {"12"}
RiskDraws == {95}
OnboardDraws == {30}
RiskDriftDraws == {10}
RevenueFactorDraws == {115}
MinuteDraws == {30}
AppOffsetDraws == {1}
LateAppOffsetDraws == {10}
RequestedDraws == {1234567}
PurposeDraws == {"INVENTORY"}
StatusDraws == {"PENDING", "APPROVED", "REJECTED"}
CreditDraws == {"700"}
DisbOffsetDraws == {2}
LateDisbOffsetDraws == {20}
DisbFactorDraws == {85, 100}
InterestDraws == {1500}
TermDraws == {"12"}
ScheduleDraws == {"WEEKLY"}
PayJitterDraws == {110}
MethodDraws == {"ACH"}
SchedDraws == {"TRUE"}
DefaultDueDraws == {"45"}
DueDraws == {"0"}
ResurfaceJitterDraws == {105}

(* ------------------------------ helpers ------------------------------- *)
Max(a, b) == IF a >= b THEN a ELSE b
Min(a, b) == IF a <= b THEN a ELSE b

\* round(n / d, 2) on cents, for n >= 0 and d > 0
RoundDiv(n, d) == (2 * n + d) \div (2 * d)

fmt_date(d) == <<"date", d>>

fmt_ts(day, minutes) == <<"ts", day, minutes>>

\* datetime.combine(batch_date, min.time()) + timedelta(hours=h, minutes=m)
proc_time(day, h, m) == fmt_ts(day, h * 60 + m)

chance(u, p) == u < p

clamp(x, lo, hi) == Max(lo, Min(hi, x))

\* str(uuid4()): the next identifier of the run's own entropy
uuid4(s, k) == <<"uuid", s.entropy, s.nuuid + k>>

\* date.fromisoformat accepts a formatted date and nothing else
is_isoformat(d) == d[1] = "date"

BatchPath(kind, day) == <<kind, fmt_date(day)>>

write_csv(path, headers, rows, include_header) ==
    [path |-> path, header |-> IF include_header THEN headers ELSE <<>>, rows |-> rows]

include_header_merch_first_day(c, day_idx) ==
    ~(c.no_header_every_n_days # 0 /\ day_idx % c.no_header_every_n_days = 0)

include_header_merch(c, day_idx) ==
    ~(c.no_header_every_n_days # 0 /\ day_idx % c.no_header_every_n_days = 1)

include_header_disb(c, day_idx) ==
    ~(c.no_header_every_n_days # 0 /\ day_idx % c.no_header_every_n_days = 2)

MerchRow(m) ==
    <<m.merchant_id, m.business_name, m.industry_code, m.state_code,
      m.annual_revenue, m.employees_count, m.risk_score, m.onboarding_date>>

BAD_MERCH_ROW == <<<<"not-a-uuid", 0, 0>>, <<"Bad Merchant", 0>>, "ABCDE", "C", -100, "x", 150, <<"not-a-date", 0>>>>
BAD_APP_ROW == <<<<"bad-app", 0, 0>>, <<"", 0, 0>>, <<"not-a-date", 0>>, -500, "OTHER", "UNKNOWN", "999", <<"not-a-ts", 0, 0>>>>
BAD_DISB_ROW(a, m) == <<<<"bad-disb", 0, 0>>, a, m, 0, <<"not-a-date", 0>>, -1000, "0", "YEARLY">>
BAD_PAY_ROW(d) == <<<<"bad-pay", 0, 0>>, d, <<"", 0, 0>>, <<"not-a-date", 0>>, -100, "CASH", "MAYBE", "x", <<"not-a-ts", 0, 0>>>>

(* --------------------------- configurations --------------------------- *)
Config(days, m, a, dr, p, n, dup, inv, brk, late) ==
    [num_days |-> days, num_merchants |-> m, apps_per_day |-> a, disb_rate |-> dr,
     pays_per_disb |-> p, no_header_every_n_days |-> n, duplicate_rate |-> dup,
     invalid_rate |-> inv, broken_ref_rate |-> brk, late_arrival_rate |-> late]

DisbRates == {50, 100}

\* long runs of a pool of one merchant: the header schedule, the merchant drift
HeaderConfigs ==
    {Config(MaxDays, 1, 0, 100, 1, n, 0, 0, 0, 0) : n \in 0..MaxPeriod}

\* one day without noise: every pool size and volume, the empty pool included
PoolConfigs ==
    {Config(1, m, a, dr, p, 3, 0, 0, 0, 0) :
        m \in 0..MaxMerchants, a \in 0..MaxApps, dr \in DisbRates, p \in 1..MaxPays}

\* the rates strictly between 0 and 1 among the four noise rates of a configuration
Fractional(dup, inv, brk, late) ==
    {x \in {"dup", "inv", "brk", "late"} :
        \/ x = "dup" /\ dup > 0 /\ dup < 100
        \/ x = "inv" /\ inv > 0 /\ inv < 100
        \/ x = "brk" /\ brk > 0 /\ brk < 100
        \/ x = "late" /\ late > 0 /\ late < 100}

\* one day of one merchant and one application under the noise rates 0, 1/2
\* and 1, at most one of them fractional
RateConfigs ==
    {Config(1, 1, 1, 100, 1, 3, dup, inv, brk, late) :
        <<dup, inv, brk, late>> \in
            {q \in {0, 50, 100} \X {0, 50} \X {0, 50, 100} \X {0, 100} :
                Cardinality(Fractional(q[1], q[2], q[3], q[4])) <= 1}}

\* several days of one merchant and one application: the carry maps, with
\* every row duplicated or every reference broken
CarryConfigs ==
    {Config(CarryDays, 1, 1, 100, 1, 3, dup, 0, brk, 0) :
        <<dup, brk>> \in {q \in {0, 100} \X {0, 100} : q[1] = 0 \/ q[2] = 0}}

\* rates outside [0, 1]
UnvalidatedConfigs ==
    {Config(CarryDays, 1, 1, 100, 1, 3, -1, -1, -1, -1)}

Configs ==
    HeaderConfigs \cup PoolConfigs \cup RateConfigs \cup CarryConfigs \cup UnvalidatedConfigs

(* ------------------------------- state -------------------------------- *)
InitRun(e) ==
    [pc |-> "gen_merchants", error |-> "none", entropy |-> e, nuuid |-> 0,
     merchants |-> <<>>, merchant_by_id |-> <<>>,
     carry_apps |-> <<>>, carry_pays |-> <<>>,
     day_idx |-> 0, i |-> 0, k |-> 0,
     merch_rows |-> <<>>, apps_rows |-> <<>>, approved_apps |-> <<>>, num_disb |-> 0,
     disb_rows |-> <<>>, pay_rows |-> <<>>, disb_date |-> 0,
     gen_apps |-> 0, gen_pays |-> 0, broken_disb |-> {}, spawned |-> <<>>,
     files |-> <<>>]

Init ==
    /\ cfg \in Configs
    /\ run \in {[r \in Runs |-> InitRun(e[r])] : e \in {f \in [Runs -> Entropies] : f[1] = 1}}

\* every run is at the position pc
At(pc) == \A r \in Runs : run[r].pc = pc

\* both runs take the step f with the same values of the random stream
Both(f(_)) == run' = [r \in Runs |-> f(run[r])] /\ UNCHANGED cfg

(* --------------------------- gen_merchants ---------------------------- *)
gen_merchant(s, industry, state, revenue, employees, risk, onboard) ==
    [s EXCEPT
        !.nuuid = s.nuuid + 1,
        !.merchants = Append(s.merchants,
            [merchant_id |-> uuid4(s, 1),
             business_name |-> <<"Merchant", Len(s.merchants)>>,
             industry_code |-> industry,
             state_code |-> state,
             annual_revenue |-> revenue,
             employees_count |-> employees,
             risk_score |-> clamp(risk, 0, 100),
             onboarding_date |-> fmt_date(0 - onboard)])]

GenMerchant ==
    /\ At("gen_merchants")
    /\ \A r \in Runs : Len(run[r].merchants) < cfg.num_merchants
    /\ \E industry \in IndustryDraws, state \in StateDraws, revenue \in RevenueDraws,
          employees \in EmployeesDraws, risk \in RiskDraws, onboard \in OnboardDraws :
          LET step(s) == gen_merchant(s, industry, state, revenue, employees, risk, onboard)
          IN Both(step)

\* lines 106-113: the pool by id (in insertion order), the empty carry maps
build_pool(s) ==
    [s EXCEPT !.merchant_by_id = s.merchants, !.carry_apps = <<>>, !.carry_pays = <<>>,
              !.day_idx = 0, !.pc = "day_loop"]

BuildPool ==
    /\ At("gen_merchants")
    /\ \A r \in Runs : Len(run[r].merchants) = cfg.num_merchants
    /\ Both(build_pool)

(* ------------------------------ day loop ------------------------------ *)
day_loop(s) ==
    IF s.day_idx < cfg.num_days
    THEN [s EXCEPT !.merch_rows = <<>>, !.i = 1, !.pc = "merch_loop"]
    ELSE [s EXCEPT !.pc = "done"]

DayLoop ==
    /\ At("day_loop")
    /\ Both(day_loop)

(* --------------------------- merchants file --------------------------- *)
mutate_merchant(m, u, drift, factor) ==
    IF u < MUTATE_RISK_RATE
    THEN [m EXCEPT !.risk_score = clamp(m.risk_score + drift, 0, 100)]
    ELSE [m EXCEPT !.annual_revenue = Max(100, RoundDiv(m.annual_revenue * factor, 100))]

merch_snapshot(s, u, uk, drift, factor) ==
    LET m == s.merchants[s.i]
        row == IF chance(u, MUTATION_RATE) THEN mutate_merchant(m, uk, drift, factor) ELSE m
    IN [s EXCEPT
          !.merchant_by_id = IF chance(u, MUTATION_RATE)
                             THEN [s.merchant_by_id EXCEPT ![s.i] = row]
                             ELSE s.merchant_by_id,
          !.merch_rows = Append(s.merch_rows, MerchRow(row)),
          !.i = s.i + 1]

MerchSnapshot ==
    /\ At("merch_loop")
    /\ \A r \in Runs : run[r].i <= Len(run[r].merchants)
    /\ \E u \in UnitDraws, uk \in UnitDraws, drift \in RiskDriftDraws, factor \in RevenueFactorDraws :
          LET step(s) == merch_snapshot(s, u, uk, drift, factor)
          IN Both(step)

\* random.choice(rows) with the draw j of the stream
choice(rows, j) == rows[(j % Len(rows)) + 1]

\* the indexes random.choice can draw in a list of the length the runs hold
ChoiceDraws(sel(_)) == 0..Max(0, Len(sel(run[1])) - 1)

merch_noise(s, ud, j, ui) ==
    LET r1 == IF Len(s.merch_rows) > 0 /\ chance(ud, cfg.duplicate_rate)
              THEN Append(s.merch_rows, choice(s.merch_rows, j))
              ELSE s.merch_rows
        r2 == IF chance(ui, cfg.invalid_rate) THEN Append(r1, BAD_MERCH_ROW) ELSE r1
    IN [s EXCEPT
          !.merch_rows = r2,
          !.files = Append(s.files,
              write_csv(BatchPath("merchants", s.day_idx), MERCH_HEADERS, r2,
                        include_header_merch(cfg, s.day_idx))),
          !.apps_rows = <<>>,
          !.pc = "app_resurface"]

MerchNoise ==
    /\ At("merch_loop")
    /\ \A r \in Runs : run[r].i > Len(run[r].merchants)
    /\ LET rows(s) == s.merch_rows
       IN \E ud \in UnitDraws, j \in ChoiceDraws(rows), ui \in UnitDraws :
             LET step(s) == merch_noise(s, ud, j, ui)
             IN Both(step)

(* -------------------------- applications file ------------------------ *)
\* lines 151-157: a carried application is sent again, updated; the carry map
\* is left as it is
app_resurface(s, u, j, minute) ==
    LET old_row == choice(s.carry_apps, j)
        updated == [old_row EXCEPT
                       ![6] = IF old_row[6] = "PENDING" THEN "APPROVED" ELSE old_row[6],
                       ![8] = proc_time(s.day_idx, 2, minute)]
    IN [s EXCEPT
          !.apps_rows = IF Len(s.carry_apps) > 0 /\ chance(u, RESURFACE_RATE)
                        THEN Append(s.apps_rows, updated)
                        ELSE s.apps_rows,
          !.gen_apps = IF Len(s.carry_apps) > 0 /\ chance(u, RESURFACE_RATE) THEN 1 ELSE 0,
          !.i = 0,
          !.pc = "app_loop"]

AppResurface ==
    /\ At("app_resurface")
    /\ LET rows(s) == s.carry_apps
       IN \E u \in UnitDraws, j \in ChoiceDraws(rows), minute \in MinuteDraws :
             LET step(s) == app_resurface(s, u, j, minute)
             IN Both(step)

\* random.choice of an empty list raises IndexError
sample_merch(merchants, j) == choice(merchants, j)

\* randint(..) if chance(cfg.late_arrival_rate) else randint(..)
late_offset(ul, late, normal) ==
    IF chance(ul, cfg.late_arrival_rate) THEN late ELSE normal

dup_row_inverted(rows, row, ud) ==
    IF chance(ud, cfg.duplicate_rate) THEN rows ELSE Append(rows, row)

dup_row(rows, row, ud) ==
    IF chance(ud, cfg.duplicate_rate) THEN Append(rows, row) ELSE rows

gen_application(s, j, ul, late, normal, requested, status, credit, minute, purpose, ud) ==
    IF Len(s.merchant_by_id) = 0
    THEN [s EXCEPT !.nuuid = s.nuuid + 1, !.pc = "crashed", !.error = "IndexError"]
    ELSE
      LET app_id == uuid4(s, 1)
          m == sample_merch(s.merchant_by_id, j)
          row == <<app_id, m.merchant_id,
                   fmt_date(s.day_idx - late_offset(ul, late, normal)),
                   requested, purpose, status, credit, proc_time(s.day_idx, 2, minute)>>
      IN [s EXCEPT
            !.nuuid = s.nuuid + 1,
            !.apps_rows = dup_row(Append(s.apps_rows, row), row, ud),
            !.carry_apps = Append(s.carry_apps, row),
            !.gen_apps = s.gen_apps + 1,
            !.i = s.i + 1]

GenApplication ==
    /\ At("app_loop")
    /\ \A r \in Runs : run[r].i < cfg.apps_per_day
    /\ LET pool(s) == s.merchant_by_id
       IN \E j \in ChoiceDraws(pool), ul \in UnitDraws, late \in LateAppOffsetDraws,
             normal \in AppOffsetDraws, requested \in RequestedDraws, status \in StatusDraws,
             credit \in CreditDraws, minute \in MinuteDraws, purpose \in PurposeDraws,
             ud \in UnitDraws :
             LET step(s) == gen_application(s, j, ul, late, normal, requested, status,
                                            credit, minute, purpose, ud)
             IN Both(step)

app_noise(s, ui) ==
    LET rows == IF chance(ui, cfg.invalid_rate) THEN Append(s.apps_rows, BAD_APP_ROW)
                ELSE s.apps_rows
    IN [s EXCEPT
          !.apps_rows = rows,
          !.files = Append(s.files,
              write_csv(BatchPath("applications", s.day_idx), APP_HEADERS, rows, TRUE)),
          !.disb_rows = <<>>,
          !.pc = "disb_select"]

AppNoise ==
    /\ At("app_loop")
    /\ \A r \in Runs : run[r].i >= cfg.apps_per_day
    /\ \E ui \in UnitDraws :
          LET step(s) == app_noise(s, ui)
          IN Both(step)

(* ------------------------- disbursements file ------------------------- *)
is_approved(r) == Len(r) >= 6 /\ r[6] = "APPROVED"

\* int(n * disb_rate): truncation towards zero
disb_count(n, rate) ==
    IF rate >= 0 THEN (n * rate) \div 100 ELSE 0 - ((n * (0 - rate)) \div 100)

\* lines 198-201: the day's approved rows, shuffled by the permutation p
disb_select(s, p) ==
    LET approved == SelectSeq(s.apps_rows, is_approved)
    IN [s EXCEPT
          !.approved_apps = [x \in 1..Len(approved) |-> approved[p[x]]],
          !.num_disb = disb_count(Len(approved), cfg.disb_rate),
          !.i = 1,
          !.pc = "disb_loop"]

ShuffleDraws(n) == Permutations(1..n)

DisbSelect ==
    /\ At("disb_select")
    /\ \E p \in ShuffleDraws(Len(SelectSeq(run[1].apps_rows, is_approved))) :
          LET step(s) == disb_select(s, p)
          IN Both(step)

disb_amount_over(requested, factor) == RoundDiv(requested * (factor + 15), 100)

disb_amount(requested, factor) == RoundDiv(requested * factor, 100)

\* lines 214-217: the application id the disbursement row carries
app_id_used(s, app_id, ub) ==
    IF chance(ub, cfg.broken_ref_rate) THEN uuid4(s, 2) ELSE app_id

gen_disbursement(s, ul, late, normal, factor, ub, interest, term, schedule, ud) ==
    LET app_row == s.approved_apps[s.i]
        disb_id == uuid4(s, 1)
        broken == chance(ub, cfg.broken_ref_rate)
        row == <<disb_id, app_id_used(s, app_row[1], ub), app_row[2],
                 disb_amount(app_row[4], factor),
                 fmt_date(s.day_idx - late_offset(ul, late, normal)),
                 interest, term, schedule>>
    IN [s EXCEPT
          !.nuuid = s.nuuid + (IF broken THEN 2 ELSE 1),
          !.broken_disb = IF broken THEN s.broken_disb \cup {disb_id} ELSE s.broken_disb,
          !.disb_rows = dup_row(Append(s.disb_rows, row), row, ud),
          !.i = s.i + 1]

GenDisbursement ==
    /\ At("disb_loop")
    /\ \A r \in Runs : run[r].i <= run[r].num_disb
    /\ \E ul \in UnitDraws, late \in LateDisbOffsetDraws, normal \in DisbOffsetDraws,
          factor \in DisbFactorDraws, ub \in UnitDraws, interest \in InterestDraws,
          term \in TermDraws, schedule \in ScheduleDraws, ud \in UnitDraws :
          LET step(s) == gen_disbursement(s, ul, late, normal, factor, ub, interest,
                                          term, schedule, ud)
          IN Both(step)

disb_noise(s, ui) ==
    LET bad == chance(ui, cfg.invalid_rate)
        rows == IF bad THEN Append(s.disb_rows, BAD_DISB_ROW(uuid4(s, 1), uuid4(s, 2)))
                ELSE s.disb_rows
    IN [s EXCEPT
          !.nuuid = s.nuuid + (IF bad THEN 2 ELSE 0),
          !.disb_rows = rows,
          !.files = Append(s.files,
              write_csv(BatchPath("disbursements", s.day_idx), DISB_HEADERS, rows,
                        include_header_disb(cfg, s.day_idx))),
          !.pay_rows = <<>>,
          !.pc = "pay_resurface"]

DisbNoise ==
    /\ At("disb_loop")
    /\ \A r \in Runs : run[r].i > run[r].num_disb
    /\ \E ui \in UnitDraws :
          LET step(s) == disb_noise(s, ui)
          IN Both(step)

(* ---------------------------- payments file --------------------------- *)
\* lines 248-254: a carried payment is sent again, updated; the carry map is
\* left as it is
pay_resurface(s, u, j, jitter, minute) ==
    LET old_row == choice(s.carry_pays, j)
        updated == [old_row EXCEPT
                       ![5] = Max(100, RoundDiv(old_row[5] * jitter, 100)),
                       ![9] = proc_time(s.day_idx, 10, minute)]
    IN [s EXCEPT
          !.pay_rows = IF Len(s.carry_pays) > 0 /\ chance(u, RESURFACE_RATE)
                       THEN Append(s.pay_rows, updated)
                       ELSE s.pay_rows,
          !.gen_pays = IF Len(s.carry_pays) > 0 /\ chance(u, RESURFACE_RATE) THEN 1 ELSE 0,
          !.spawned = <<>>,
          !.i = 1,
          !.pc = "pay_loop"]

PayResurface ==
    /\ At("pay_resurface")
    /\ LET rows(s) == s.carry_pays
       IN \E u \in UnitDraws, j \in ChoiceDraws(rows), jitter \in ResurfaceJitterDraws,
             minute \in MinuteDraws :
             LET step(s) == pay_resurface(s, u, j, jitter, minute)
             IN Both(step)

\* lines 257-260: the next row of disb_rows; date.fromisoformat raises
\* ValueError on a string that is no date
pay_next_disb(s) ==
    LET disb_row == s.disb_rows[s.i]
    IN IF ~is_isoformat(disb_row[5])
       THEN [s EXCEPT !.pc = "crashed", !.error = "ValueError"]
       ELSE IF cfg.pays_per_disb > 0
       THEN [s EXCEPT !.disb_date = disb_row[5][2], !.k = 0, !.pc = "pay_inner"]
       ELSE [s EXCEPT !.disb_date = disb_row[5][2], !.i = s.i + 1]

PayNextDisb ==
    /\ At("pay_loop")
    /\ \A r \in Runs : run[r].i <= Len(run[r].disb_rows)
    /\ Both(pay_next_disb)

more_pays_inclusive(k) == k <= cfg.pays_per_disb

\* line 263: range(cfg.pays_per_disb)
more_pays(k) == k < cfg.pays_per_disb

disb_id_used_inverted(s, disb_id, ub) ==
    IF chance(ub, cfg.broken_ref_rate) THEN disb_id ELSE uuid4(s, 2)

\* line 279: the disbursement id the payment row carries
disb_id_used(s, disb_id, ub) ==
    IF ~chance(ub, cfg.broken_ref_rate) THEN disb_id ELSE uuid4(s, 2)

gen_payment(s, jitter, method, is_sched, udue, defdue, due, minute, ub, ud) ==
    LET disb_row == s.disb_rows[s.i]
        pid == uuid4(s, 1)
        amount == RoundDiv(disb_row[4] * jitter, cfg.pays_per_disb * 100)
        days_from_due == IF chance(udue, DEFAULT_PROXY_RATE) THEN defdue ELSE due
        row == <<pid, disb_id_used(s, disb_row[1], ub), disb_row[3],
                 fmt_date(s.disb_date + (s.k + 1) * PAY_INTERVAL_DAYS),
                 Max(100, amount), method, is_sched, days_from_due,
                 proc_time(s.day_idx, 9, minute)>>
        last == ~more_pays(s.k + 1)
    IN [s EXCEPT
          !.nuuid = s.nuuid + (IF chance(ub, cfg.broken_ref_rate) THEN 2 ELSE 1),
          !.pay_rows = dup_row(Append(s.pay_rows, row), row, ud),
          !.carry_pays = Append(s.carry_pays, row),
          !.gen_pays = s.gen_pays + 1,
          !.spawned = Append(s.spawned, disb_row[1]),
          !.k = IF last THEN 0 ELSE s.k + 1,
          !.i = IF last THEN s.i + 1 ELSE s.i,
          !.pc = IF last THEN "pay_loop" ELSE "pay_inner"]

GenPayment ==
    /\ At("pay_inner")
    /\ \E jitter \in PayJitterDraws, method \in MethodDraws, is_sched \in SchedDraws,
          udue \in DueUnitDraws, defdue \in DefaultDueDraws, due \in DueDraws,
          minute \in MinuteDraws, ub \in UnitDraws, ud \in UnitDraws :
          LET step(s) == gen_payment(s, jitter, method, is_sched, udue, defdue, due,
                                     minute, ub, ud)
          IN Both(step)

\* lines 299-303, and the end of the day's iteration
pay_noise(s, ui) ==
    LET bad == chance(ui, cfg.invalid_rate)
        rows == IF bad THEN Append(s.pay_rows, BAD_PAY_ROW(uuid4(s, 1))) ELSE s.pay_rows
    IN [s EXCEPT
          !.nuuid = s.nuuid + (IF bad THEN 1 ELSE 0),
          !.pay_rows = rows,
          !.files = Append(s.files,
              write_csv(BatchPath("payments", s.day_idx), PAY_HEADERS, rows, TRUE)),
          !.day_idx = s.day_idx + 1,
          !.pc = "day_loop"]

PayNoise ==
    /\ At("pay_loop")
    /\ \A r \in Runs : run[r].i > Len(run[r].disb_rows)
    /\ \E ui \in UnitDraws :
          LET step(s) == pay_noise(s, ui)
          IN Both(step)

Next ==
    \/ GenMerchant
    \/ BuildPool
    \/ DayLoop
    \/ MerchSnapshot
    \/ MerchNoise
    \/ AppResurface
    \/ GenApplication
    \/ AppNoise
    \/ DisbSelect
    \/ GenDisbursement
    \/ DisbNoise
    \/ PayResurface
    \/ PayNextDisb
    \/ GenPayment
    \/ PayNoise

Spec == Init /\ [][Next]_vars

(* ============================== claims ================================ *)
IsUuid(id) == id[1] = "uuid"

HasFile(s, kind, d) == \E x \in DOMAIN s.files : s.files[x].path = BatchPath(kind, d)

File(s, kind, d) == s.files[CHOOSE x \in DOMAIN s.files : s.files[x].path = BatchPath(kind, d)]

Ids(rows) == {rows[x][1] : x \in DOMAIN rows}

Count(seq, v) == Cardinality({x \in DOMAIN seq : seq[x] = v})

Days == 0..(cfg.num_days - 1)

\* the four files of day s.day_idx - 1 are written, its row sets still held
EndOfDay(s) == s.pc = "day_loop" /\ s.day_idx > 0

\* the payment loop over disb_rows is over: it ran to its end, or it stopped on
\* the row it could not parse
PayLoopOver(s) ==
    \/ s.pc = "pay_loop" /\ s.i > Len(s.disb_rows)
    \/ s.pc = "crashed" /\ s.error = "ValueError"
    \/ EndOfDay(s)

\* the runs read the stream in the same order: positions never part
LockStep ==
    \A r \in Runs :
        /\ run[r].pc = run[1].pc
        /\ run[r].day_idx = run[1].day_idx
        /\ run[r].i = run[1].i
        /\ run[r].k = run[1].k
        /\ run[r].nuuid = run[1].nuuid

\* C1: two runs of main with the same seed and configuration write the same
\* files, identifiers included.
C1_SameOutput == run[1].files = run[2].files

DupOnly ==
    /\ cfg.duplicate_rate = 100
    /\ cfg.invalid_rate = 0
    /\ cfg.broken_ref_rate = 0
    /\ cfg.late_arrival_rate = 0

\* a file of gen generated rows holds one row more, a copy of an earlier row
OneExtra(rows, gen) ==
    /\ Len(rows) = gen + 1
    /\ \E x \in 1..(Len(rows) - 1) : rows[x] = rows[Len(rows)]

\* the last fresh rows of the file are each followed by one copy of themselves
Paired(rows, gen, fresh) ==
    /\ Len(rows) = gen + fresh
    /\ \A x \in 1..fresh :
          rows[(gen - fresh) + 2 * x - 1] = rows[(gen - fresh) + 2 * x]

Unvalidated ==
    \/ cfg.num_merchants = 0 /\ cfg.apps_per_day >= 1
    \/ cfg.duplicate_rate < 0
    \/ cfg.invalid_rate < 0
    \/ cfg.broken_ref_rate < 0
    \/ cfg.late_arrival_rate < 0

\* C3: on an unvalidated configuration (an empty pool with applications to
\* generate, or a negative rate) main raises no error and writes the four
\* files of every day.
C3_NoFailureUnvalidated ==
    Unvalidated =>
        \A r \in Runs :
            /\ run[r].pc # "crashed"
            /\ run[r].pc = "done" => Len(run[r].files) = 4 * cfg.num_days

\* the identifiers of the disbursements generated into rows
GeneratedDisbIds(rows) == {id \in Ids(rows) : IsUuid(id)}

\* C4 as stated: each disbursement generated in a day spawns exactly
\* pays_per_disb payment rows, whatever the duplicate rate.
C4_PaysPerDisbursement ==
    \A r \in Runs : PayLoopOver(run[r]) =>
        \A id \in GeneratedDisbIds(run[r].disb_rows) :
            Count(run[r].spawned, id) = cfg.pays_per_disb

\* C4 amended: each row of the day's disbursement row set spawns exactly
\* pays_per_disb payment rows, so a disbursement spawns pays_per_disb payment
\* rows for each time its row stands in the set: twice that when its row was
\* duplicated.
C4_PaysPerDisbursementRow ==
    \A r \in Runs : PayLoopOver(run[r]) =>
        \A id \in GeneratedDisbIds(run[r].disb_rows) :
            Count(run[r].spawned, id) =
                cfg.pays_per_disb * Cardinality({x \in DOMAIN run[r].disb_rows :
                                                    run[r].disb_rows[x][1] = id})

\* a disbursement whose row was duplicated has spawned twice pays_per_disb
\* payment rows
C4_Witness ==
    /\ PayLoopOver(run[1])
    /\ cfg.pays_per_disb >= 1
    /\ \E id \in GeneratedDisbIds(run[1].disb_rows) :
          /\ Cardinality({x \in DOMAIN run[1].disb_rows : run[1].disb_rows[x][1] = id}) = 2
          /\ Count(run[1].spawned, id) = 2 * cfg.pays_per_disb

\* the carry map's entry of the row's id is the row
CarryHolds(carry, row) ==
    /\ \E x \in DOMAIN carry : carry[x][1] = row[1]
    /\ \A x \in DOMAIN carry : carry[x][1] = row[1] => carry[x] = row

\* C5: after a day's application stage the application carry map holds every
\* application row emitted that day, a resurfaced row included, as the entry
\* of its id; likewise the payment carry map after the payment stage.
C5_CarryHoldsEmitted ==
    \A r \in Runs :
        /\ run[r].pc = "disb_select" =>
              \A x \in DOMAIN run[r].apps_rows :
                  IsUuid(run[r].apps_rows[x][1]) =>
                      CarryHolds(run[r].carry_apps, run[r].apps_rows[x])
        /\ EndOfDay(run[r]) =>
              \A x \in DOMAIN run[r].pay_rows :
                  IsUuid(run[r].pay_rows[x][1]) =>
                      CarryHolds(run[r].carry_pays, run[r].pay_rows[x])

\* C6: the merchant rows of a day carry the latest persisted snapshot of each
\* merchant: the row of a merchant is the row of its entry in the pool by id,
\* whether it was mutated today or on an earlier day.
C6_DriftPersisted ==
    \A r \in Runs :
        (run[r].pc = "merch_loop" /\ run[r].i > Len(run[r].merchants)) =>
            \A x \in DOMAIN run[r].merchants :
                run[r].merch_rows[x] = MerchRow(run[r].merchant_by_id[x])

\* C7: a disbursement row generated without broken-reference injection names
\* an application of the same day's applications file that is APPROVED,
\* copies its merchant_id, and disburses no more than it requested.
C7_DisbursementReferences ==
    \A r \in Runs : \A d \in Days :
        HasFile(run[r], "disbursements", d) =>
            LET disb == File(run[r], "disbursements", d).rows
                apps == File(run[r], "applications", d).rows
            IN \A x \in DOMAIN disb :
                  (IsUuid(disb[x][1]) /\ disb[x][1] \notin run[r].broken_disb) =>
                      \E y \in DOMAIN apps :
                          /\ apps[y][1] = disb[x][2]
                          /\ apps[y][6] = "APPROVED"
                          /\ apps[y][2] = disb[x][3]
                          /\ disb[x][4] <= apps[y][4]

\* of two merchants' applications, a disbursement at a part of the requested
\* amount, beside a broken reference or not
C7_Witness ==
    /\ cfg.num_merchants = 2
    /\ HasFile(run[1], "disbursements", 0)
    /\ LET disb == File(run[1], "disbursements", 0).rows
           apps == File(run[1], "applications", 0).rows
       IN /\ Cardinality({apps[y][2] : y \in DOMAIN apps}) = 2
          /\ \E x \in DOMAIN disb : \E y \in DOMAIN apps :
                /\ apps[y][1] = disb[x][2]
                /\ disb[x][4] < apps[y][4]

\* C8: with broken_ref_rate = 1, no disbursement row of a day names an
\* application_id of the day's applications file and no payment row of the
\* day (a resurfaced one included) names a disbursement_id of the day's
\* disbursements file.
C8_AllReferencesBroken ==
    cfg.broken_ref_rate = 100 =>
        \A r \in Runs : \A d \in Days :
            /\ HasFile(run[r], "disbursements", d) =>
                  \A x \in DOMAIN File(run[r], "disbursements", d).rows :
                      File(run[r], "disbursements", d).rows[x][2]
                          \notin Ids(File(run[r], "applications", d).rows)
            /\ HasFile(run[r], "payments", d) =>
                  \A x \in DOMAIN File(run[r], "payments", d).rows :
                      File(run[r], "payments", d).rows[x][2]
                          \notin Ids(File(run[r], "disbursements", d).rows)

\* the second day's payments file holds a resurfaced payment of the first day
\* and a payment spawned that day
C8_Witness ==
    /\ cfg.broken_ref_rate = 100
    /\ HasFile(run[1], "payments", 1)
    /\ File(run[1], "disbursements", 1).rows # <<>>
    /\ Ids(File(run[1], "payments", 1).rows) \cap Ids(File(run[1], "payments", 0).rows) # {}
    /\ Len(File(run[1], "payments", 1).rows) >= 2

FileKind(f) == f.path[1]
FileDay(f) == f.path[2][2]

\* C9: for a header period N >= 1, the merchants file of day d has no header
\* row exactly when d % N = 1, the disbursements file exactly when d % N = 2,
\* and the applications and payments files always have theirs.
C9_HeaderSchedule ==
    cfg.no_header_every_n_days >= 1 =>
        \A r \in Runs : \A x \in DOMAIN run[r].files :
            LET f == run[r].files[x]
                n == cfg.no_header_every_n_days
            IN /\ FileKind(f) = "merchants" =>
                    IF FileDay(f) % n = 1 THEN f.header = <<>> ELSE f.header = MERCH_HEADERS
               /\ FileKind(f) = "disbursements" =>
                    IF FileDay(f) % n = 2 THEN f.header = <<>> ELSE f.header = DISB_HEADERS
               /\ FileKind(f) = "applications" => f.header = APP_HEADERS
               /\ FileKind(f) = "payments" => f.header = PAY_HEADERS

\* period 3: the merchants files of days 1 and 4 and the disbursements file of
\* day 2 are written without header, the merchants file of day 3 with it
C9_Witness ==
    /\ cfg.no_header_every_n_days = 3
    /\ HasFile(run[1], "merchants", 4)
    /\ File(run[1], "merchants", 1).header = <<>>
    /\ File(run[1], "merchants", 4).header = <<>>
    /\ File(run[1], "merchants", 3).header = MERCH_HEADERS
    /\ File(run[1], "disbursements", 2).header = <<>>

Validated ==
    /\ cfg.num_merchants >= 1
    /\ cfg.disb_rate >= 0 /\ cfg.disb_rate <= 100
    /\ \A p \in {cfg.duplicate_rate, cfg.invalid_rate, cfg.broken_ref_rate,
                 cfg.late_arrival_rate} : p >= 0 /\ p <= 100

\* C10: on a configuration with a merchant and every rate in [0, 1] the run
\* ends normally after every day: the payment stage goes through every row of
\* the day's disbursement row set, the malformed one included, and the
\* payments file of every day is written.
C10_RunCompletes ==
    Validated =>
        \A r \in Runs :
            /\ run[r].pc # "crashed"
            /\ run[r].pc = "done" =>
                  \A d \in Days : HasFile(run[r], "payments", d)

====
